---- MODULE Spec2Model ----
(***************************************************************************)
(* Model of octocov's gating and acceptability code:                       *)
(*   config/config.go  Config.Acceptable, coverageAcceptable,              *)
(*                     codeToTestRatioAcceptable,                          *)
(*                     testExecutionTimeAcceptable, the three *Color       *)
(*                     methods and Config.CheckIf;                         *)
(*   and, of the same package, Config.CentralConfigReady and               *)
(*   Config.CentralPushConfigReady.                                        *)
(*                                                                         *)
(* float64 values are exact decimal fractions [n, d] (value n/d) plus NaN. *)
(* Strings that the code parses are sequences of one-character strings.    *)
(* Durations are counted in seconds on both sides of every comparison      *)
(* (the code counts both sides in nanoseconds).                            *)
(***************************************************************************)
EXTENDS Integers, Sequences, FiniteSets, TLC

VARIABLES
    c,      \* the Config the methods are called on (receiver *Config)
    arg,    \* inputs drawn for the pure functions (value, threshold, report)
    call,   \* the operation that ran last, with its inputs
    ret,    \* what that operation returned and did
    gs      \* goroutines inside CheckIf (overlapping calls)

vars == <<c, arg, call, ret, gs>>

(***************************************************************************)
(* Bounds of the model.                                                    *)
(***************************************************************************)
MaxLen == 3
MaxArg == 1300
NumGoroutines == 2

(***************************************************************************)
(* float64: decimal fractions and NaN.                                     *)
(***************************************************************************)
NaN == [nan |-> TRUE, n |-> 0, d |-> 1]

Num(n, d) == [nan |-> FALSE, n |-> n, d |-> d]

\* Go's x < y on float64: false as soon as one side is NaN.
Lt(x, y) == ~x.nan /\ ~y.nan /\ x.n * y.d < y.n * x.d

\* Go's x > y on float64.
Gt(x, y) == Lt(y, x)

\* Go's x >= y on float64: false as soon as one side is NaN.
Ge(x, y) == ~x.nan /\ ~y.nan /\ x.n * y.d >= y.n * x.d

(***************************************************************************)
(* Strings as sequences of characters.                                     *)
(***************************************************************************)
Digits == {"0", "1"}

Alphabet == Digits \cup {".", "%", ":", "m", "N", "a"}

DigitVal(ch) == IF ch = "1" THEN 1 ELSE 0

RECURSIVE Pow10(_)
Pow10(k) == IF k = 0 THEN 1 ELSE 10 * Pow10(k - 1)

Strings(k) == UNION {[1..i -> Alphabet] : i \in 0..k}

\* strings.TrimSuffix(s, suffix) for a one-character suffix
TrimSuffix(s, ch) ==
    IF Len(s) >= 1 /\ s[Len(s)] = ch THEN SubSeq(s, 1, Len(s) - 1) ELSE s

\* strings.TrimPrefix(s, prefix) for a two-character prefix
TrimPrefix(s, ch1, ch2) ==
    IF Len(s) >= 2 /\ s[1] = ch1 /\ s[2] = ch2 THEN SubSeq(s, 3, Len(s)) ELSE s

RECURSIVE DigitsValue(_)
DigitsValue(s) ==
    IF s = <<>> THEN 0
    ELSE 10 * DigitsValue(SubSeq(s, 1, Len(s) - 1)) + DigitVal(s[Len(s)])

\* s without its "." characters
RECURSIVE DropDots(_)
DropDots(s) ==
    IF s = <<>> THEN <<>>
    ELSE IF s[1] = "." THEN DropDots(Tail(s)) ELSE <<s[1]>> \o DropDots(Tail(s))

\* strconv.ParseFloat(s, 64) on strings over Alphabet: "NaN" (any case) is the
\* NaN value; otherwise a decimal with at least one digit and at most one ".".
ParseFloat(s) ==
    LET dots == {i \in 1..Len(s) : s[i] = "."}
        digs == {i \in 1..Len(s) : s[i] \in Digits}
    IN  IF s = <<"N", "a", "N">> THEN [ok |-> TRUE, val |-> NaN]
        ELSE IF /\ digs # {}
                /\ Cardinality(dots) <= 1
                /\ dots \cup digs = 1..Len(s)
        THEN [ok |-> TRUE,
              val |-> Num(DigitsValue(DropDots(s)),
                          IF dots = {} THEN 1
                          ELSE Pow10(Len(s) - (CHOOSE i \in dots : TRUE)))]
        ELSE [ok |-> FALSE, val |-> Num(0, 1)]

Minute == 60

\* duration.Parse(s) on strings over Alphabet: one or more groups of decimal
\* digits followed by the unit "m"; the result in seconds.
RECURSIVE ParseDuration(_)
ParseDuration(s) ==
    LET units == {i \in 1..Len(s) : s[i] = "m"}
    IN  IF units = {} THEN [ok |-> FALSE, val |-> 0]
        ELSE LET u    == CHOOSE i \in units : \A j \in units : i <= j
                 head == SubSeq(s, 1, u - 1)
                 rest == SubSeq(s, u + 1, Len(s))
                 more == IF rest = <<>> THEN [ok |-> TRUE, val |-> 0]
                         ELSE ParseDuration(rest)
             IN  IF /\ head # <<>>
                    /\ \A i \in 1..Len(head) : head[i] \in Digits
                    /\ more.ok
                 THEN [ok |-> TRUE, val |-> DigitsValue(head) * Minute + more.val]
                 ELSE [ok |-> FALSE, val |-> 0]

(***************************************************************************)
(* The acceptability checks.  An error is "nil", "parse" (the parser's     *)
(* error), "below" or "above" (the fmt.Errorf of the comparison).          *)
(***************************************************************************)
coverageAcceptable(cov, cond) ==
    IF cond = <<>> THEN "nil"
    ELSE LET a == ParseFloat(TrimSuffix(cond, "%"))
         IN  IF ~a.ok THEN "parse"
             ELSE IF Lt(cov, a.val) THEN "below"
             ELSE "nil"

codeToTestRatioAcceptable(ratio, cond) ==
    IF cond = <<>> THEN "nil"
    ELSE LET a == ParseFloat(TrimPrefix(cond, "1", ":"))
         IN  IF ~a.ok THEN "parse"
             ELSE IF Lt(ratio, a.val) THEN "below"
             ELSE "nil"

testExecutionTimeAcceptable(t, cond) ==
    IF cond = <<>> THEN "nil"
    ELSE LET a == ParseDuration(cond)
         IN  IF ~a.ok THEN "parse"
             ELSE IF Gt(t, Num(a.val, 1)) THEN "above"
             ELSE "nil"

(***************************************************************************)
(* Config.Acceptable.  The receiver's Coverage, CodeToTestRatio and        *)
(* TestExecutionTime are [ready, Acceptable]: ready is the outcome of the  *)
(* metric's ...ConfigReady() call (nil error), Acceptable the threshold.   *)
(* The report r is [cov, ratio, time], what r.CoveragePercent(),           *)
(* r.CodeToTestRatioRatio() and r.TestExecutionTimeNano() return.          *)
(* The result is the error, the metric that raised it and the checks run.  *)
(***************************************************************************)
AcceptableResult(err, metric, checked) ==
    [err |-> err, metric |-> metric, checked |-> checked]

\* The check is run for a metric that is ready and skipped for one that is not.
WhenReadyAlways(ready, err) == err

\* if err := c.<Metric>ConfigReady(); err == nil { if err := check; ... }
WhenReady(ready, err) == IF ready THEN err ELSE "nil"

Acceptable(cfg, r) ==
    LET e1 == WhenReady(cfg.Coverage.ready,
                        coverageAcceptable(r.cov, cfg.Coverage.Acceptable))
        l1 == IF cfg.Coverage.ready THEN <<"coverage">> ELSE <<>>
        e2 == WhenReady(cfg.CodeToTestRatio.ready,
                        codeToTestRatioAcceptable(r.ratio,
                                                  cfg.CodeToTestRatio.Acceptable))
        l2 == IF cfg.CodeToTestRatio.ready THEN l1 \o <<"ratio">> ELSE l1
        e3 == WhenReady(cfg.TestExecutionTime.ready,
                        testExecutionTimeAcceptable(r.time,
                                                    cfg.TestExecutionTime.Acceptable))
        l3 == IF cfg.TestExecutionTime.ready THEN l2 \o <<"time">> ELSE l2
    IN  IF e1 # "nil" THEN AcceptableResult(e1, "coverage", l1)
        ELSE IF e2 # "nil" THEN AcceptableResult(e2, "ratio", l2)
        ELSE IF e3 # "nil" THEN AcceptableResult(e3, "time", l3)
        ELSE AcceptableResult("nil", "none", l3)

(***************************************************************************)
(* The badge colours.                                                      *)
(***************************************************************************)
green == "#97CA00"
yellowgreen == "#A4A61D"
yellow == "#DFB317"
orange == "#FE7D37"
red == "#E05D44"

\* CoverageColor with the tiers' lower bounds exclusive.
CoverageColorExclusive(cover) ==
    CASE Gt(cover, Num(800, 10)) -> green
      [] Gt(cover, Num(600, 10)) -> yellowgreen
      [] Gt(cover, Num(400, 10)) -> yellow
      [] Gt(cover, Num(200, 10)) -> orange
      [] OTHER -> red

CoverageColor(cover) ==
    CASE Ge(cover, Num(800, 10)) -> green
      [] Ge(cover, Num(600, 10)) -> yellowgreen
      [] Ge(cover, Num(400, 10)) -> yellow
      [] Ge(cover, Num(200, 10)) -> orange
      [] OTHER -> red

CodeToTestRatioColor(ratio) ==
    CASE Ge(ratio, Num(12, 10)) -> green
      [] Ge(ratio, Num(10, 10)) -> yellowgreen
      [] Ge(ratio, Num(8, 10)) -> yellow
      [] Ge(ratio, Num(6, 10)) -> orange
      [] OTHER -> red

TestExecutionTimeColor(d) ==
    CASE d < 5 * Minute -> green
      [] d < 10 * Minute -> yellowgreen
      [] d < 15 * Minute -> yellow
      [] d < 20 * Minute -> orange
      [] OTHER -> red

(***************************************************************************)
(* Config.CheckIf.                                                         *)
(*                                                                         *)
(* A gate expression is one of Conds.  The outcomes of the collaborators   *)
(* of one call are a record o:                                             *)
(*   decode         gh.DecodeGitHubEvent           "ok" | "err"            *)
(*   parse          gh.Parse                       "ok" | "err"            *)
(*   new            gh.New                         "ok" | "err"            *)
(*   defaultBranch  GetDefaultBranch               a branch | "err"        *)
(*   currentBranch  DetectCurrentBranch            a branch | "err"        *)
(*   pr             DetectCurrentPullRequestNumber "ok" | "err"            *)
(*   strict         whether expr.Eval reports a comparison of a            *)
(*                  non-boolean with true as an error (or yields false)    *)
(* c.gh is 0 for nil, otherwise the identity of the client.                *)
(* An error is "nil" or one of the strings below.                          *)
(***************************************************************************)
Conds == {"", "true", "false", "is_pull_request == true", "is_default_branch",
          "1", "github.event_name", "year +"}

Branches == {"main", "topic"}

\* One record per way a call can go: a collaborator that fails ends the call,
\* and the outcomes of those behind it are never asked for.
Outcome(decode, parse, new, defaultBranch, currentBranch, pr, strict) ==
    [decode |-> decode, parse |-> parse, new |-> new,
     defaultBranch |-> defaultBranch, currentBranch |-> currentBranch,
     pr |-> pr, strict |-> strict]

Outcomes ==
    {Outcome("err", "unused", "unused", "unused", "unused", "unused", FALSE),
     Outcome("ok", "err", "unused", "unused", "unused", "unused", FALSE),
     Outcome("ok", "ok", "err", "unused", "unused", "unused", FALSE),
     Outcome("ok", "ok", "ok", "err", "unused", "unused", FALSE)} \cup
    {Outcome("ok", "ok", "ok", d, b, p, s) :
        d \in Branches, b \in Branches \cup {"err"}, p \in {"ok", "err"},
        s \in BOOLEAN}

\* gh.New can fail only in a call that makes the client (c.gh is nil).
OutcomesFor(cfg) == {o \in Outcomes : o.new = "err" => cfg.gh = 0}

ErrDecode == "decode github event"
ErrRepositoryNotSet == "env GITHUB_REPOSITORY is not set"
ErrRepositoryParse == "parse repository"
ErrNew == "new client"
ErrDefaultBranch == "get default branch"
ErrEval == "eval"

\* What CheckIf returns, (ok, err), with what it did: the value it left in
\* c.gh, the collaborators it called in order, and the two context flags.
Result(ok, err, gh, calls, isDefaultBranch, isPullRequest) ==
    [ok |-> ok, err |-> err, gh |-> gh, calls |-> calls,
     isDefaultBranch |-> isDefaultBranch, isPullRequest |-> isPullRequest]

\* The value of a gate expression under the variables map: a boolean, an
\* integer, a string, or an error (the expression does not parse).
Value(t, b) == [t |-> t, b |-> b]

ExprValue(cond, variables) ==
    CASE cond = "true" -> Value("bool", TRUE)
      [] cond = "false" -> Value("bool", FALSE)
      [] cond = "is_pull_request == true" -> Value("bool", variables.is_pull_request)
      [] cond = "is_default_branch" -> Value("bool", variables.is_default_branch)
      [] cond = "1" -> Value("int", FALSE)
      [] cond = "github.event_name" -> Value("string", FALSE)
      [] OTHER -> Value("error", FALSE)

\* Eval taking any value that is not false, zero or empty for true.
EvalTruthy(cond, variables, strict) ==
    LET v == ExprValue(cond, variables)
    IN  IF v.t = "error" THEN [ok |-> FALSE, err |-> ErrEval]
        ELSE IF v.t = "bool" THEN [ok |-> v.b, err |-> "nil"]
        ELSE [ok |-> TRUE, err |-> "nil"]

\* expr.Eval(fmt.Sprintf("(%s) == true", cond), variables) and ok.(bool)
Eval(cond, variables, strict) ==
    LET v == ExprValue(cond, variables)
    IN  IF v.t = "error" THEN [ok |-> FALSE, err |-> ErrEval]
        ELSE IF v.t = "bool" THEN [ok |-> v.b, err |-> "nil"]
        ELSE IF strict THEN [ok |-> FALSE, err |-> ErrEval]
        ELSE [ok |-> FALSE, err |-> "nil"]

\* lines 315-334: the variables map, the evaluation, the return
Evaluate(cond, o, gh, calls, isDefaultBranch, isPullRequest) ==
    LET variables == [is_default_branch |-> isDefaultBranch,
                      is_pull_request |-> isPullRequest]
        e == Eval(cond, variables, o.strict)
    IN  Result(e.ok, e.err, gh, calls \o <<"Eval">>, isDefaultBranch, isPullRequest)

\* lines 304-309
IsDefaultBranch(b, defaultBranch) == b # "err" /\ b = defaultBranch

\* IsPullRequest with the test of the error inverted.
IsPullRequestInverted(pr) == pr = "err"

\* lines 311-314
IsPullRequest(pr) == pr # "err"

\* lines 304-314: the two detections, neither of which fails the call
Detect(cond, o, gh, calls, defaultBranch) ==
    Evaluate(cond, o, gh,
             calls \o <<"DetectCurrentBranch", "DetectCurrentPullRequestNumber">>,
             IsDefaultBranch(o.currentBranch, defaultBranch),
             IsPullRequest(o.pr))

\* GetDefaultBranch degrading a failed lookup instead of returning its error.
GetDefaultBranchDegrade(cond, o, gh, calls) ==
    Detect(cond, o, gh, calls \o <<"GetDefaultBranch">>, o.defaultBranch)

\* lines 300-303
GetDefaultBranch(cond, o, gh, calls) ==
    IF o.defaultBranch = "err"
    THEN Result(FALSE, ErrDefaultBranch, gh, calls \o <<"GetDefaultBranch">>,
                FALSE, FALSE)
    ELSE Detect(cond, o, gh, calls \o <<"GetDefaultBranch">>, o.defaultBranch)

\* lines 293-299: the client is made when c.gh is nil, and kept
Client(cfg, cond, o, calls) ==
    IF cfg.gh = 0
    THEN IF o.new = "err"
         THEN Result(FALSE, ErrNew, cfg.gh, calls \o <<"New">>, FALSE, FALSE)
         ELSE GetDefaultBranch(cond, o, 1, calls \o <<"New">>)
    ELSE GetDefaultBranch(cond, o, cfg.gh, calls)

\* Repo without the test for an empty c.Repository.
RepoUnchecked(cfg, cond, o, calls) ==
    IF o.parse = "err"
    THEN Result(FALSE, ErrRepositoryParse, cfg.gh, calls \o <<"Parse">>, FALSE, FALSE)
    ELSE Client(cfg, cond, o, calls \o <<"Parse">>)

\* lines 285-292
Repo(cfg, cond, o, calls) ==
    IF cfg.Repository = ""
    THEN Result(FALSE, ErrRepositoryNotSet, cfg.gh, calls, FALSE, FALSE)
    ELSE IF o.parse = "err"
    THEN Result(FALSE, ErrRepositoryParse, cfg.gh, calls \o <<"Parse">>, FALSE, FALSE)
    ELSE Client(cfg, cond, o, calls \o <<"Parse">>)

\* lines 281-284
Decode(cfg, cond, o) ==
    IF o.decode = "err"
    THEN Result(FALSE, ErrDecode, cfg.gh, <<"DecodeGitHubEvent">>, FALSE, FALSE)
    ELSE Repo(cfg, cond, o, <<"DecodeGitHubEvent">>)

\* CheckIf without the early return for the empty expression.
CheckIfAlwaysAssemble(cfg, cond, o) == Decode(cfg, cond, o)

CheckIf(cfg, cond, o) ==
    IF cond = ""
    THEN Result(TRUE, "nil", cfg.gh, <<>>, FALSE, FALSE)
    ELSE Decode(cfg, cond, o)

\* The outcomes a call consumed: those of the collaborators it did not call
\* are "unused".
Used(o, calls) ==
    LET called(f) == \E i \in 1..Len(calls) : calls[i] = f
    IN  [decode |-> IF called("DecodeGitHubEvent") THEN o.decode ELSE "unused",
         parse |-> IF called("Parse") THEN o.parse ELSE "unused",
         new |-> IF called("New") THEN o.new ELSE "unused",
         defaultBranch |-> IF called("GetDefaultBranch") THEN o.defaultBranch
                           ELSE "unused",
         currentBranch |-> IF called("DetectCurrentBranch") THEN o.currentBranch
                           ELSE "unused",
         pr |-> IF called("DetectCurrentPullRequestNumber") THEN o.pr ELSE "unused",
         strict |-> IF called("Eval") THEN o.strict ELSE FALSE]

(***************************************************************************)
(* Config.CentralConfigReady and Config.CentralPushConfigReady.            *)
(* c.Central and c.Push are pointers: nil is the record with nil = TRUE.   *)
(* The result is what the method returned, the line it wrote to stderr     *)
(* ([kind, text], kind "none" when it wrote nothing), whether it panicked  *)
(* on a nil pointer, and the CheckIf it ran.                               *)
(***************************************************************************)
NilCentral == [nil |-> TRUE, Enable |-> FALSE, Push |-> [Enable |-> FALSE, If |-> ""]]

NilPush == [nil |-> TRUE, If |-> ""]

NoCheck == Result(FALSE, "nil", 0, <<>>, FALSE, FALSE)

Ready(ready, kind, text, panic, ran, check) ==
    [ready |-> ready, diag |-> [kind |-> kind, text |-> text], panic |-> panic,
     ran |-> ran, check |-> check]

CentralConfigReady(cfg) == ~cfg.Central.nil /\ cfg.Central.Enable

CentralPushConfigReady(cfg, o) ==
    IF ~CentralConfigReady(cfg) THEN Ready(FALSE, "none", "", FALSE, FALSE, NoCheck)
    ELSE IF ~cfg.Central.Push.Enable \/ cfg.GitRoot = ""
    THEN Ready(FALSE, "none", "", FALSE, FALSE, NoCheck)
    ELSE LET res == CheckIf(cfg, cfg.Central.Push.If, o)
         IN  IF res.err # "nil"
             THEN Ready(FALSE, "error", res.err, FALSE, TRUE, res)
             ELSE IF ~res.ok
             THEN IF cfg.Push.nil
                  THEN Ready(FALSE, "none", "", TRUE, TRUE, res)
                  ELSE Ready(FALSE, "unmet", cfg.Push.If, FALSE, TRUE, res)
             ELSE Ready(TRUE, "none", "", FALSE, TRUE, res)

(***************************************************************************)
(* States and inputs.                                                      *)
(***************************************************************************)
NoThreshold == [ready |-> FALSE, Acceptable |-> <<>>]

Config0 ==
    [Repository |-> "", gh |-> 0, Central |-> NilCentral, Push |-> NilPush,
     GitRoot |-> "", Coverage |-> NoThreshold, CodeToTestRatio |-> NoThreshold,
     TestExecutionTime |-> NoThreshold]

NoArg == [kind |-> "none"]
NoCall == [op |-> "none"]
NoRet == [op |-> "none"]

Repositories == {"", "owner/repo"}

CentralIfs == {"", "false", "is_pull_request == true", "1"}

Centrals ==
    {NilCentral,
     [nil |-> FALSE, Enable |-> FALSE, Push |-> [Enable |-> TRUE, If |-> ""]],
     [nil |-> FALSE, Enable |-> TRUE, Push |-> [Enable |-> FALSE, If |-> ""]]} \cup
    {[nil |-> FALSE, Enable |-> TRUE, Push |-> [Enable |-> TRUE, If |-> i]] :
        i \in CentralIfs}

Pushes == {NilPush, [nil |-> FALSE, If |-> "true"], [nil |-> FALSE, If |-> "false"]}

GitRoots == {"", "/repo"}

(***************************************************************************)
(* Spec: CheckIf called again and again on one Config.                     *)
(***************************************************************************)
Init ==
    /\ c \in {[Config0 EXCEPT !.Repository = rp] : rp \in Repositories}
    /\ arg = NoArg
    /\ call = NoCall
    /\ ret = NoRet
    /\ gs = <<>>

CallCheckIf ==
    \E cond \in Conds, o \in OutcomesFor(c) :
        LET res == CheckIf(c, cond, o)
        IN  /\ c' = [c EXCEPT !.gh = res.gh]
            /\ call' = [op |-> "CheckIf", cond |-> cond, o |-> Used(o, res.calls),
                        before |-> c]
            /\ ret' = res
            /\ UNCHANGED <<arg, gs>>

Next == CallCheckIf

Spec == Init /\ [][Next]_vars

(***************************************************************************)
(* SpecCentral: CentralPushConfigReady called again and again on one       *)
(* Config.                                                                 *)
(***************************************************************************)
InitCentral ==
    /\ c \in {[Config0 EXCEPT !.Repository = rp, !.Central = ce, !.Push = pu,
                              !.GitRoot = gr] :
                rp \in Repositories, ce \in Centrals, pu \in Pushes, gr \in GitRoots}
    /\ arg = NoArg
    /\ call = NoCall
    /\ ret = NoRet
    /\ gs = <<>>

CallCentralPushConfigReady ==
    \E o \in OutcomesFor(c) :
        LET res == CentralPushConfigReady(c, o)
        IN  /\ c' = [c EXCEPT !.gh = IF res.ran THEN res.check.gh ELSE c.gh]
            /\ call' = [op |-> "CentralPushConfigReady", cond |-> c.Central.Push.If,
                        o |-> Used(o, res.check.calls), before |-> c]
            /\ ret' = res
            /\ UNCHANGED <<arg, gs>>

NextCentral == CallCentralPushConfigReady

SpecCentral == InitCentral /\ [][NextCentral]_vars

(***************************************************************************)
(* SpecOverlap: NumGoroutines goroutines call CheckIf on one Config, the   *)
(* calls overlapping.  A goroutine's steps are the stretches of CheckIf    *)
(* between its accesses to c.gh: the test of line 293 and the assignment   *)
(* of line 298 are separate steps, as nothing in the code makes them one.  *)
(* ret.news counts the assignments c.gh = g, and the client a call used    *)
(* for its lookups is kept in the goroutine's record.                      *)
(***************************************************************************)
Goroutines == 1..NumGoroutines

OverlapConds == {"", "true", "is_pull_request == true"}

Idle == [pc |-> "idle", cond |-> "", used |-> 0, ok |-> FALSE, err |-> "nil"]

InitOverlap ==
    /\ c \in {[Config0 EXCEPT !.Repository = rp] : rp \in Repositories}
    /\ arg = NoArg
    /\ call = NoCall
    /\ ret = [op |-> "goroutines", news |-> 0]
    /\ gs = [g \in Goroutines |-> Idle]

\* lines 277-292: up to the test of c.gh
GoEnter(g) ==
    /\ gs[g].pc = "idle"
    /\ \E cond \in OverlapConds, decode \in {"ok", "err"}, parse \in {"ok", "err"} :
        LET o == Outcome(decode, parse, "unused", "unused", "unused", "unused", FALSE)
            res == IF cond = "" THEN Result(TRUE, "nil", 0, <<>>, FALSE, FALSE)
                   ELSE IF decode = "err" \/ c.Repository = "" \/ parse = "err"
                   THEN CheckIf(c, cond, o)
                   ELSE Result(FALSE, "nil", 0, <<>>, FALSE, FALSE)
        IN  gs' = [gs EXCEPT ![g] =
                IF cond = "" \/ res.err # "nil"
                THEN [pc |-> "done", cond |-> cond, used |-> 0,
                      ok |-> res.ok, err |-> res.err]
                ELSE [pc |-> "client", cond |-> cond, used |-> 0,
                      ok |-> FALSE, err |-> "nil"]]
    /\ UNCHANGED <<c, arg, call, ret>>

\* line 293: if c.gh == nil
GoClient(g) ==
    /\ gs[g].pc = "client"
    /\ gs' = [gs EXCEPT ![g].pc = IF c.gh = 0 THEN "new" ELSE "lookup"]
    /\ UNCHANGED <<c, arg, call, ret>>

\* lines 294-298: gh.New() and c.gh = g
GoNew(g) ==
    /\ gs[g].pc = "new"
    /\ \/ /\ gs' = [gs EXCEPT ![g].pc = "done", ![g].err = ErrNew]
          /\ UNCHANGED <<c, ret>>
       \/ /\ c' = [c EXCEPT !.gh = ret.news + 1]
          /\ ret' = [ret EXCEPT !.news = ret.news + 1]
          /\ gs' = [gs EXCEPT ![g].pc = "lookup"]
    /\ UNCHANGED <<arg, call>>

\* lines 300-334: the lookups on c.gh, the evaluation, the return
GoLookup(g) ==
    /\ gs[g].pc = "lookup"
    /\ \E o \in Outcomes :
        /\ o.new = "ok"
        /\ LET res == GetDefaultBranch(gs[g].cond, o, c.gh, <<>>)
           IN  gs' = [gs EXCEPT ![g] = [pc |-> "done", cond |-> gs[g].cond,
                                        used |-> c.gh, ok |-> res.ok,
                                        err |-> res.err]]
    /\ UNCHANGED <<c, arg, call, ret>>

\* the caller takes the result; the goroutine may call again
GoReturn(g) ==
    /\ gs[g].pc = "done"
    /\ gs' = [gs EXCEPT ![g] = Idle]
    /\ UNCHANGED <<c, arg, call, ret>>

NextOverlap ==
    \E g \in Goroutines :
        GoEnter(g) \/ GoClient(g) \/ GoNew(g) \/ GoLookup(g) \/ GoReturn(g)

SpecOverlap == InitOverlap /\ [][NextOverlap]_vars

(***************************************************************************)
(* SpecThreshold: the three acceptability checks on drawn (value, string). *)
(***************************************************************************)
Values ==
    {Num(n, 10) : n \in {0, 5, 9, 10, 11, 99, 100, 101, 599, 600, 601,
                         5990, 6000, 6010}}

InitThreshold ==
    /\ arg \in [kind : {"threshold"}, v : Values, cond : Strings(MaxLen)]
    /\ c = Config0
    /\ call = NoCall
    /\ ret = NoRet
    /\ gs = <<>>

CallCoverageAcceptable ==
    /\ call' = [op |-> "coverageAcceptable"]
    /\ ret' = [err |-> coverageAcceptable(arg.v, arg.cond)]
    /\ UNCHANGED <<c, arg, gs>>

CallCodeToTestRatioAcceptable ==
    /\ call' = [op |-> "codeToTestRatioAcceptable"]
    /\ ret' = [err |-> codeToTestRatioAcceptable(arg.v, arg.cond)]
    /\ UNCHANGED <<c, arg, gs>>

CallTestExecutionTimeAcceptable ==
    /\ call' = [op |-> "testExecutionTimeAcceptable"]
    /\ ret' = [err |-> testExecutionTimeAcceptable(arg.v, arg.cond)]
    /\ UNCHANGED <<c, arg, gs>>

NextThreshold ==
    \/ CallCoverageAcceptable
    \/ CallCodeToTestRatioAcceptable
    \/ CallTestExecutionTimeAcceptable

SpecThreshold == InitThreshold /\ [][NextThreshold]_vars

(***************************************************************************)
(* SpecAcceptable: Config.Acceptable on drawn configurations and reports.  *)
(***************************************************************************)
CoverageThresholds == {<<>>, <<"1", "0", "%">>, <<"%">>}
RatioThresholds == {<<>>, <<"1", ":", "1">>, <<"1", ":">>}
TimeThresholds == {<<>>, <<"1", "m">>, <<"1">>}

Thresholds(S) == [ready : BOOLEAN, Acceptable : S]

Reports ==
    [kind : {"report"}, cov : {Num(99, 10), Num(100, 10)},
     ratio : {Num(9, 10), Num(10, 10)}, time : {Num(600, 10), Num(601, 10)}]

InitAcceptable ==
    /\ c \in {[Config0 EXCEPT !.Coverage = t1, !.CodeToTestRatio = t2,
                              !.TestExecutionTime = t3] :
                t1 \in Thresholds(CoverageThresholds),
                t2 \in Thresholds(RatioThresholds),
                t3 \in Thresholds(TimeThresholds)}
    /\ arg \in Reports
    /\ call = NoCall
    /\ ret = NoRet
    /\ gs = <<>>

CallAcceptable ==
    /\ call' = [op |-> "Acceptable", before |-> c, r |-> arg]
    /\ ret' = Acceptable(c, arg)
    /\ UNCHANGED <<c, arg, gs>>

NextAcceptable == CallAcceptable

SpecAcceptable == InitAcceptable /\ [][NextAcceptable]_vars

(***************************************************************************)
(* SpecColor: the three colour methods on a drawn input x, read as x/10    *)
(* percent, as the ratio x/100 and as x seconds.                           *)
(***************************************************************************)
Below == 10

Inputs == (0 - Below)..MaxArg

InitColor ==
    /\ arg \in [kind : {"color"}, x : Inputs]
    /\ c = Config0
    /\ call = NoCall
    /\ ret = NoRet
    /\ gs = <<>>

CallCoverageColor ==
    /\ call' = [op |-> "CoverageColor"]
    /\ ret' = [color |-> CoverageColor(Num(arg.x, 10))]
    /\ UNCHANGED <<c, arg, gs>>

CallCodeToTestRatioColor ==
    /\ call' = [op |-> "CodeToTestRatioColor"]
    /\ ret' = [color |-> CodeToTestRatioColor(Num(arg.x, 100))]
    /\ UNCHANGED <<c, arg, gs>>

CallTestExecutionTimeColor ==
    /\ call' = [op |-> "TestExecutionTimeColor"]
    /\ ret' = [color |-> TestExecutionTimeColor(arg.x)]
    /\ UNCHANGED <<c, arg, gs>>

NextColor ==
    \/ CallCoverageColor
    \/ CallCodeToTestRatioColor
    \/ CallTestExecutionTimeColor

SpecColor == InitColor /\ [][NextColor]_vars

(***************************************************************************)
(* The claims.                                                             *)
(***************************************************************************)
Called(calls, f) == \E i \in 1..Len(calls) : calls[i] = f

ContextOf(res) ==
    [is_default_branch |-> res.isDefaultBranch, is_pull_request |-> res.isPullRequest]

\* C1: CheckIf("") returns (true, nil) whatever the Config holds, calls no
\* collaborator at all (no decoding, no parsing, no client, no lookup) and
\* leaves the Config as it was.
C1_EmptyCondIsTrueWithoutAssembly ==
    (call.op = "CheckIf" /\ call.cond = "") =>
        /\ ret.ok
        /\ ret.err = "nil"
        /\ ret.calls = <<>>
        /\ c = call.before

C1_Witness ==
    /\ call.op = "CheckIf"
    /\ call.cond = ""
    /\ c.Repository = ""
    /\ c.gh = 0
    /\ ret.ok

\* C2: CheckIf returns true only when the expression's own value is the
\* boolean true; an evaluated expression whose value is the boolean false
\* returns (false, nil); one whose value is a number or a string is rejected:
\* the call never returns true for it.
C2_TrueOnlyForBooleanTrue ==
    (call.op = "CheckIf" /\ call.cond # "") =>
        LET v == ExprValue(call.cond, ContextOf(ret))
        IN  /\ ret.ok => v = Value("bool", TRUE)
            /\ (Called(ret.calls, "Eval") /\ v = Value("bool", FALSE)) =>
                    (~ret.ok /\ ret.err = "nil")
            /\ (Called(ret.calls, "Eval") /\ v.t \in {"int", "string"}) =>
                    (~ret.ok /\ ret.err \in {"nil", ErrEval})

C2_Witness ==
    /\ call.op = "CheckIf"
    /\ call.cond = "1"
    /\ Called(ret.calls, "Eval")
    /\ ~ret.ok

\* C3: once the default-branch lookup succeeded, a failure of branch detection
\* or of pull-request detection never fails the call (only the expression
\* can); is_default_branch is true iff branch detection succeeded with the
\* default branch, is_pull_request iff pull-request detection succeeded, and
\* "is_pull_request == true" returns true exactly when it succeeded.
C3_DetectionDegradesToFalse ==
    (/\ call.op = "CheckIf"
     /\ call.cond # ""
     /\ call.o.defaultBranch \in Branches) =>
        /\ ret.err \in {"nil", ErrEval}
        /\ ret.err = ErrEval =>
                ExprValue(call.cond, ContextOf(ret)).t \in {"error", "int", "string"}
        /\ ret.isDefaultBranch <=>
                (call.o.currentBranch # "err"
                 /\ call.o.currentBranch = call.o.defaultBranch)
        /\ ret.isPullRequest <=> call.o.pr = "ok"
        /\ call.cond = "is_pull_request == true" =>
                (ret.err = "nil" /\ (ret.ok <=> call.o.pr = "ok"))

C3_Witness ==
    /\ call.op = "CheckIf"
    /\ call.cond = "is_pull_request == true"
    /\ call.o.defaultBranch = "main"
    /\ call.o.currentBranch = "err"
    /\ call.o.pr = "err"
    /\ ret.err = "nil"
    /\ ~ret.ok
    /\ ~ret.isDefaultBranch

ConfigurationErrors == {ErrRepositoryNotSet, ErrRepositoryParse}

\* The call ended before the client: gate false, no client made, no lookup.
EndedBeforeClient ==
    /\ ~ret.ok
    /\ c.gh = call.before.gh
    /\ \A f \in {"New", "GetDefaultBranch", "DetectCurrentBranch",
                 "DetectCurrentPullRequestNumber", "Eval"} : ~Called(ret.calls, f)

\* C4 as claimed: with a non-empty expression the call fails with a
\* configuration error whenever the repository identifier is empty or
\* malformed, and with the platform error whenever the payload cannot be
\* decoded; either way the gate is false and nothing past parsing is done.
C4_AsClaimed ==
    (call.op = "CheckIf" /\ call.cond # "") =>
        /\ (c.Repository = "" \/ call.o.parse = "err") =>
                (ret.err \in ConfigurationErrors /\ EndedBeforeClient)
        /\ call.o.decode = "err" => (ret.err = ErrDecode /\ EndedBeforeClient)

\* C4 amended: the payload is decoded first, so the call fails with the
\* platform error whenever the payload cannot be decoded, and with a
\* configuration error whenever the payload decoded and the repository
\* identifier is empty or malformed; either way the gate is false, no client
\* is made and no lookup is issued.
C4_DecodeThenRepository ==
    (call.op = "CheckIf" /\ call.cond # "") =>
        /\ call.o.decode = "err" => (ret.err = ErrDecode /\ EndedBeforeClient)
        /\ (call.o.decode = "ok" /\ c.Repository = "") =>
                (ret.err = ErrRepositoryNotSet /\ EndedBeforeClient)
        /\ (call.o.decode = "ok" /\ call.o.parse = "err") =>
                (ret.err = ErrRepositoryParse /\ EndedBeforeClient)

C4_Witness ==
    /\ call.op = "CheckIf"
    /\ call.cond = "true"
    /\ call.o.decode = "ok"
    /\ call.o.parse = "err"
    /\ ret.err = ErrRepositoryParse
    /\ ~ret.ok

\* C5: however the calls overlap, c.gh is assigned a client at most once, and
\* every call that reaches its lookups uses that one client.
C5_ClientMadeAtMostOnce ==
    /\ ret.news <= 1
    /\ \A g \in Goroutines : gs[g].used \in {0, 1}

\* C6: each acceptability check returns no error iff the threshold string is
\* empty, or it parses and the comparison holds: value >= threshold for
\* coverage and ratio, value <= threshold for the execution time.
Le(x, y) == ~x.nan /\ ~y.nan /\ x.n * y.d <= y.n * x.d

C6_PassIffComparisonHolds ==
    /\ call.op = "coverageAcceptable" =>
        LET a == ParseFloat(TrimSuffix(arg.cond, "%"))
        IN  ret.err = "nil" <=> (arg.cond = <<>> \/ (a.ok /\ Ge(arg.v, a.val)))
    /\ call.op = "codeToTestRatioAcceptable" =>
        LET a == ParseFloat(TrimPrefix(arg.cond, "1", ":"))
        IN  ret.err = "nil" <=> (arg.cond = <<>> \/ (a.ok /\ Ge(arg.v, a.val)))
    /\ call.op = "testExecutionTimeAcceptable" =>
        LET a == ParseDuration(arg.cond)
        IN  ret.err = "nil" <=>
                (arg.cond = <<>> \/ (a.ok /\ Le(arg.v, Num(a.val, 1))))

\* C6 for thresholds that parse to a number: the same, NaN apart.
C6_PassIffComparisonHoldsForNumbers ==
    /\ call.op = "coverageAcceptable" =>
        LET a == ParseFloat(TrimSuffix(arg.cond, "%"))
        IN  (a.ok => ~a.val.nan) =>
            (ret.err = "nil" <=> (arg.cond = <<>> \/ (a.ok /\ Ge(arg.v, a.val))))
    /\ call.op = "codeToTestRatioAcceptable" =>
        LET a == ParseFloat(TrimPrefix(arg.cond, "1", ":"))
        IN  (a.ok => ~a.val.nan) =>
            (ret.err = "nil" <=> (arg.cond = <<>> \/ (a.ok /\ Ge(arg.v, a.val))))
    /\ call.op = "testExecutionTimeAcceptable" =>
        LET a == ParseDuration(arg.cond)
        IN  ret.err = "nil" <=>
                (arg.cond = <<>> \/ (a.ok /\ Le(arg.v, Num(a.val, 1))))

\* C7: each colour method gives every input exactly one of the five tiers, by
\* the fixed breakpoints, and the tier never gets worse as the coverage or
\* the ratio grows or as the duration shrinks.
Rank(color) ==
    CASE color = green -> 5
      [] color = yellowgreen -> 4
      [] color = yellow -> 3
      [] color = orange -> 2
      [] color = red -> 1

\* the tier of x by lower bounds b4 > b3 > b2 > b1 (higher is better)
TierFrom(x, b4, b3, b2, b1) ==
    /\ ret.color \in {green, yellowgreen, yellow, orange, red}
    /\ ret.color = green <=> x >= b4
    /\ ret.color = yellowgreen <=> (b3 <= x /\ x < b4)
    /\ ret.color = yellow <=> (b2 <= x /\ x < b3)
    /\ ret.color = orange <=> (b1 <= x /\ x < b2)
    /\ ret.color = red <=> x < b1

\* the tier of x by upper bounds b1 < b2 < b3 < b4 (lower is better)
TierUpTo(x, b1, b2, b3, b4) ==
    /\ ret.color \in {green, yellowgreen, yellow, orange, red}
    /\ ret.color = green <=> x < b1
    /\ ret.color = yellowgreen <=> (b1 <= x /\ x < b2)
    /\ ret.color = yellow <=> (b2 <= x /\ x < b3)
    /\ ret.color = orange <=> (b3 <= x /\ x < b4)
    /\ ret.color = red <=> x >= b4

C7_ColorTiers ==
    /\ call.op = "CoverageColor" =>
        /\ TierFrom(arg.x, 800, 600, 400, 200)
        /\ \A y \in Inputs :
            y >= arg.x => Rank(CoverageColor(Num(y, 10))) >= Rank(ret.color)
    /\ call.op = "CodeToTestRatioColor" =>
        /\ TierFrom(arg.x, 120, 100, 80, 60)
        /\ \A y \in Inputs :
            y >= arg.x => Rank(CodeToTestRatioColor(Num(y, 100))) >= Rank(ret.color)
    /\ call.op = "TestExecutionTimeColor" =>
        /\ TierUpTo(arg.x, 300, 600, 900, 1200)
        /\ \A y \in Inputs :
            y <= arg.x => Rank(TestExecutionTimeColor(y)) >= Rank(ret.color)

C7_Witness ==
    /\ call.op = "TestExecutionTimeColor"
    /\ arg.x = 5 * Minute
    /\ ret.color = yellowgreen

\* C8: CentralPushConfigReady returns true only if central is enabled, central
\* push is enabled, GitRoot is set and Central.Push.If evaluated to true
\* without error; when the gate is not met it returns false and the line it
\* writes names the expression that was evaluated, Central.Push.If, and
\* writing it never fails, whatever else the Config holds.
C8_SkipNamesTheEvaluatedCondition ==
    call.op = "CentralPushConfigReady" =>
        /\ ret.ready =>
            /\ ~c.Central.nil /\ c.Central.Enable /\ c.Central.Push.Enable
            /\ c.GitRoot # ""
            /\ ret.ran /\ ret.check.ok /\ ret.check.err = "nil"
        /\ (ret.ran /\ ret.check.err = "nil" /\ ~ret.check.ok) =>
            /\ ~ret.ready
            /\ ~ret.panic
            /\ ret.diag = [kind |-> "unmet", text |-> c.Central.Push.If]

\* C9: a call that got past decoding, parsing and the client issues its own
\* lookups, whether or not an earlier call made the client: the default
\* branch, then the current branch, then the pull request, each once, after
\* the repository was parsed; a failed default-branch lookup ends the call
\* with (false, its error), with no retry, no detection and no evaluation.
C9_LookupsInOrderOncePerCall ==
    (/\ call.op = "CheckIf"
     /\ call.cond # ""
     /\ call.o.decode = "ok"
     /\ c.Repository # ""
     /\ call.o.parse = "ok"
     /\ (call.before.gh # 0 \/ call.o.new = "ok")) =>
        LET start == <<"DecodeGitHubEvent", "Parse">> \o
                     (IF call.before.gh = 0 THEN <<"New">> ELSE <<>>)
        IN  IF call.o.defaultBranch \in Branches
            THEN ret.calls = start \o <<"GetDefaultBranch", "DetectCurrentBranch",
                                        "DetectCurrentPullRequestNumber", "Eval">>
            ELSE /\ ret.calls = start \o <<"GetDefaultBranch">>
                 /\ ~ret.ok
                 /\ ret.err = ErrDefaultBranch

C9_Witness ==
    /\ call.op = "CheckIf"
    /\ call.before.gh # 0
    /\ call.o.defaultBranch = "main"
    /\ call.o.currentBranch = "topic"
    /\ Len(ret.calls) = 6

\* C10: Acceptable checks coverage, then ratio, then execution time, and only
\* the metrics that are ready; it returns nil iff every ready metric passes
\* its own check, otherwise the error of the first ready metric that fails,
\* without checking the later ones; it changes neither Config nor report.
C10_FirstFailingReadyMetric ==
    call.op = "Acceptable" =>
        LET e1 == coverageAcceptable(arg.cov, c.Coverage.Acceptable)
            e2 == codeToTestRatioAcceptable(arg.ratio, c.CodeToTestRatio.Acceptable)
            e3 == testExecutionTimeAcceptable(arg.time, c.TestExecutionTime.Acceptable)
            f1 == c.Coverage.ready /\ e1 # "nil"
            f2 == c.CodeToTestRatio.ready /\ e2 # "nil"
            f3 == c.TestExecutionTime.ready /\ e3 # "nil"
            ready == (IF c.Coverage.ready THEN {"coverage"} ELSE {})
                     \cup (IF c.CodeToTestRatio.ready THEN {"ratio"} ELSE {})
                     \cup (IF c.TestExecutionTime.ready THEN {"time"} ELSE {})
            order == [m \in {"coverage", "ratio", "time"} |->
                        IF m = "coverage" THEN 1 ELSE IF m = "ratio" THEN 2 ELSE 3]
            ran == {ret.checked[i] : i \in 1..Len(ret.checked)}
        IN  /\ ret.err = "nil" <=> (~f1 /\ ~f2 /\ ~f3)
            /\ f1 => (ret.err = e1 /\ ret.metric = "coverage"
                      /\ ran = ready \cap {"coverage"})
            /\ (~f1 /\ f2) => (ret.err = e2 /\ ret.metric = "ratio"
                               /\ ran = ready \cap {"coverage", "ratio"})
            /\ (~f1 /\ ~f2 /\ f3) => (ret.err = e3 /\ ret.metric = "time"
                                      /\ ran = ready)
            /\ (~f1 /\ ~f2 /\ ~f3) => ran = ready
            /\ \A i, j \in 1..Len(ret.checked) :
                    i < j => order[ret.checked[i]] < order[ret.checked[j]]
            /\ c = call.before
            /\ arg = call.r

C10_Witness ==
    /\ call.op = "Acceptable"
    /\ ~c.Coverage.ready
    /\ coverageAcceptable(arg.cov, c.Coverage.Acceptable) = "below"
    /\ c.CodeToTestRatio.ready
    /\ c.TestExecutionTime.ready
    /\ testExecutionTimeAcceptable(arg.time, c.TestExecutionTime.Acceptable) = "above"
    /\ ret.err = "below"
    /\ ret.metric = "ratio"
    /\ ret.checked = <<"ratio">>

====
